---- MODULE Spec2Model ----
(***************************************************************************)
(* A model of the NeuralNetwork circuit of src/main.rs: the Circuit trait  *)
(* methods without_witnesses, configure and synthesize, together with the  *)
(* part of the constraint system, the floor planner and the assignment     *)
(* backend that these methods drive.                                       *)
(*                                                                         *)
(* Arrays keep the 0-based indices of the source: an array of length n is  *)
(* a function with domain 0..n-1.  Field elements are the integers modulo  *)
(* FieldP.                                                                 *)
(*                                                                         *)
(* configure and synthesize are separate trait methods, each called by the *)
(* backend: configure with a constraint system, synthesize with a config   *)
(* and a layouter.  The model does not make synthesize wait for configure  *)
(* to return; the config it is given holds the handles of the 128 node     *)
(* columns, the 3 selectors and the instance column of lines 43-45.        *)
(***************************************************************************)
EXTENDS Integers, Sequences, FiniteSets, TLC

\* ------------------------------------------------------------------------
\* Sizes fixed by the source
\* ------------------------------------------------------------------------
NumInputs == 10
NumHidden == 128
NumOutputs == 10
NumNodeColumns == 128
NumSelectors == 3
\* layer1_weights() -> [[F; 128]; 10] : outer length 10, inner length 128
L1Outer == 10
L1Inner == 128
\* layer2_weights() -> [[F; 10]; 128] : outer length 128, inner length 10
L2Outer == 128
L2Inner == 10

\* ------------------------------------------------------------------------
\* Bounds of the model
\* ------------------------------------------------------------------------
\* the modulus of the field F
FieldP == 5
\* the largest number of usable rows a backend offers
MaxRows == 12
\* how often the backend may call configure in one behaviour
MaxConfigureCalls == 2

\* ------------------------------------------------------------------------
\* Value<F>
\* ------------------------------------------------------------------------
Unknown == [tag |-> "Unknown", v |-> 0]
Known(x) == [tag |-> "Known", v |-> x]

\* ------------------------------------------------------------------------
\* Parameter providers: implementations of trait Params, each returning
\* arrays of the declared types.
\* ------------------------------------------------------------------------
Providers == {"ident", "zero", "ones", "mix"}

layer1_weights(p) ==
    [a \in 0..(L1Outer - 1) |-> [b \in 0..(L1Inner - 1) |->
        CASE p = "ident" -> IF a = b THEN 1 ELSE 0
          [] p = "zero" -> 0
          [] p = "ones" -> 1
          [] OTHER -> (a + 2 * b + 1) % FieldP]]

layer2_weights(p) ==
    [a \in 0..(L2Outer - 1) |-> [b \in 0..(L2Inner - 1) |->
        CASE p = "ident" -> IF a = b THEN 1 ELSE 0
          [] p = "zero" -> 0
          [] p = "ones" -> 1
          [] OTHER -> (2 * a + b + 1) % FieldP]]

\* arr[a][b] with Rust's bounds checks: a is checked against the outer
\* array, then b against the inner one.
InBounds(arr, a, b) == a \in DOMAIN arr /\ b \in DOMAIN arr[a]

\* ------------------------------------------------------------------------
\* Expression<F>, as the gate closures build it: a constant plus a sum of
\* scaled advice queries.  No closure queries a selector, so the set of
\* selectors an expression is multiplied by stays empty.
\* ------------------------------------------------------------------------
\* Expression::Constant(F::zero())
ZeroConstant == [constant |-> 0, selectors |-> {}, terms |-> <<>>]

\* v_cells.query_advice(node_columns[i], Rotation::cur())
QueryAdvice(i) == [column |-> i, rotation |-> 0]

\* next_values[j].clone() + node_exps[i].clone() * w
AddScaled(e, q, w) ==
    [e EXCEPT !.terms = Append(@, [column |-> q.column, rotation |-> q.rotation, coeff |-> w])]

\* The two nested loops of a gate closure, `for i in 0..nSrc { for j in
\* 0..nDst { .. weights[j][i] .. } }`, run from iteration k = i * nDst + j.
\* The result is the array next_values and whether an index was out of
\* bounds (a panic); next_values is then the array as the panic left it.
RECURSIVE GateLoop(_, _, _, _, _)
GateLoop(k, nSrc, nDst, weights, nv) ==
    IF k = nSrc * nDst
    THEN [panicked |-> FALSE, next_values |-> nv]
    ELSE LET i == k \div nDst
             j == k % nDst
         IN IF ~InBounds(weights, j, i)
            THEN [panicked |-> TRUE, next_values |-> nv]
            ELSE GateLoop(k + 1, nSrc, nDst, weights,
                          [nv EXCEPT ![j] = AddScaled(@, QueryAdvice(i), weights[j][i])])

\* The closure handed to create_gate: next_values starts as nDst zero
\* constants.
GateClosure(nSrc, nDst, weights) ==
    GateLoop(0, nSrc, nDst, weights, [j \in 0..(nDst - 1) |-> ZeroConstant])

\* meta.create_gate(name, closure): the gate is registered only when the
\* closure returns.
CreateGate(cs, name, nSrc, nDst, weights) ==
    LET r == GateClosure(nSrc, nDst, weights)
    IN IF r.panicked
       THEN [panicked |-> TRUE, cs |-> cs, next_values |-> r.next_values, gate |-> name]
       ELSE [panicked |-> FALSE,
             cs |-> [cs EXCEPT !.gates = Append(@, [name |-> name, polys |-> r.next_values])],
             next_values |-> r.next_values, gate |-> name]

\* ConstraintSystem::default(); permutation holds the columns given to
\* enable_equality
EmptyCS == [num_advice_columns |-> 0, num_selectors |-> 0,
            num_instance_columns |-> 0, permutation |-> {}, gates |-> <<>>]

\* NeuralNetwork::configure for provider p.  status is "returned" with the
\* config, or "panicked" with the gate whose closure aborted; next_values
\* is then that closure's local array as the panic found it, which the
\* unwinding drops: it is no part of the constraint system.  configure
\* makes no enable_equality call, so cs.permutation stays empty.
ConfigureOutcome(p) ==
    LET cs0 == [EmptyCS EXCEPT !.num_advice_columns = NumNodeColumns,
                               !.num_selectors = NumSelectors,
                               !.num_instance_columns = 1]
        g1 == CreateGate(cs0, "layer_2", NumInputs, NumHidden, layer1_weights(p))
    IN IF g1.panicked
       THEN [status |-> "panicked", cs |-> g1.cs, in_gate |-> g1.gate,
             next_values |-> g1.next_values]
       ELSE LET g2 == CreateGate(g1.cs, "out_layer", NumHidden, NumOutputs, layer2_weights(p))
            IN IF g2.panicked
               THEN [status |-> "panicked", cs |-> g2.cs, in_gate |-> g2.gate,
                     next_values |-> g2.next_values]
               ELSE [status |-> "returned", cs |-> g2.cs, in_gate |-> "",
                     next_values |-> <<>>]


\* ------------------------------------------------------------------------
\* The circuit instance: struct NeuralNetwork
\* ------------------------------------------------------------------------
\* fn without_witnesses(&self) -> Self
without_witnesses(self) ==
    [layer1_values |-> [i \in 0..(NumInputs - 1) |-> Unknown],
     layer2_values |-> [i \in 0..(NumHidden - 1) |-> Unknown],
     layer3_values |-> [i \in 0..(NumOutputs - 1) |-> Unknown]]

\* self.layer{r+1}_values, the array region r assigns
LayerValues(self, r) ==
    CASE r = 0 -> self.layer1_values
      [] r = 1 -> self.layer2_values
      [] OTHER -> self.layer3_values

\* self.layer{r+1}_values.len()
LayerLen(self, r) == Cardinality(DOMAIN LayerValues(self, r))

\* config.layer_selectors[r], the selector region r enables
LayerSelector(r) == r

\* every value of a region sent to the first node column
NodeColumnFirst(i) == 0

\* config.node_columns[i], the column the i-th value of a region goes to
NodeColumn(i) == i

\* the row offset within the region of every enable and assign_advice
RowOffset == 0

\* the instance row output cell i is constrained to
InstanceRow(i) == i

\* a synthesize that drops the Err of a backend call and goes on
PropagateIgnored(ok, next_pc) == next_pc

\* the `?` after a backend call: an Err ends synthesize at once
Propagate(ok, next_pc) == IF ok THEN next_pc ELSE "err"

\* ------------------------------------------------------------------------
\* Witnesses the model draws from
\* ------------------------------------------------------------------------
\* the sum of f[lo..hi-1] in the field, by halving the range
RECURSIVE SumRange(_, _, _)
SumRange(f, lo, hi) ==
    IF hi <= lo THEN 0
    ELSE IF hi = lo + 1 THEN f[lo] % FieldP
    ELSE LET mid == (lo + hi) \div 2
         IN (SumRange(f, lo, mid) + SumRange(f, mid, hi)) % FieldP
SumTo(f, n) == SumRange(f, 0, n)

\* The weight the linear-combination rule gives to source i in destination
\* j.  It is the entry the gate closure reads, weights[j][i], wherever that
\* read is in bounds.  Where it is out of bounds the closure has no value
\* (it panics); the rule then takes the entry the declared array holds for
\* the pair, weights[i][j].
RuleW1(p, j, i) ==
    IF j < L1Outer /\ i < L1Inner THEN layer1_weights(p)[j][i] ELSE layer1_weights(p)[i][j]
RuleW2(p, j, i) ==
    IF j < L2Outer /\ i < L2Inner THEN layer2_weights(p)[j][i] ELSE layer2_weights(p)[i][j]

HiddenOf(p, input) ==
    [j \in 0..(NumHidden - 1) |->
        SumTo([i \in 0..(NumInputs - 1) |-> input[i] * RuleW1(p, j, i)], NumInputs)]
OutputOf(p, hidden) ==
    [j \in 0..(NumOutputs - 1) |->
        SumTo([i \in 0..(NumHidden - 1) |-> hidden[i] * RuleW2(p, j, i)], NumHidden)]

ZeroVec(n) == [i \in 0..(n - 1) |-> 0]
OneHot(n) == [i \in 0..(n - 1) |-> IF i = 0 THEN 1 ELSE 0]
Bump(vec) == [vec EXCEPT ![0] = (@ + 1) % FieldP]

WitnessKinds == {"zero", "honest", "bad_output", "bad_hidden", "zero_in_bad_out"}

MkCircuit(in, hid, out) ==
    [layer1_values |-> [i \in DOMAIN in |-> Known(in[i])],
     layer2_values |-> [i \in DOMAIN hid |-> Known(hid[i])],
     layer3_values |-> [i \in DOMAIN out |-> Known(out[i])]]

WitnessFor(p, kind) ==
    LET in == IF kind \in {"zero", "zero_in_bad_out"} THEN ZeroVec(NumInputs) ELSE OneHot(NumInputs)
        h == HiddenOf(p, in)
        hid == IF kind = "bad_hidden" THEN Bump(h) ELSE h
        o == OutputOf(p, hid)
        out == IF kind \in {"bad_output", "zero_in_bad_out"} THEN Bump(o) ELSE o
    IN MkCircuit(in, hid, out)

\* ------------------------------------------------------------------------
\* The backends a layouter writes to
\*   mock:   the mock prover keeps selectors, advice values and copies
\*   keygen: key generation keeps selectors and copies and takes an advice
\*           assignment without calling the value closure
\*   prove:  the prover's witness collection keeps advice values only; its
\*           enable_selector and copy return Ok and keep nothing
\* ------------------------------------------------------------------------
Backends ==
    [mode : {"mock"}, usable_rows : {1, 2, 3, 5, MaxRows}]
      \cup [mode : {"keygen"}, usable_rows : {MaxRows}]
      \cup [mode : {"prove"}, usable_rows : {2, MaxRows}]

\* ------------------------------------------------------------------------
\* State
\* ------------------------------------------------------------------------
VARIABLES
    provider,     \* the Params implementation P of NeuralNetwork<F, P>
    circuit,      \* the NeuralNetwork instance
    backend,      \* mode and number of usable rows of the assignment backend
    cfg,          \* outcome of the last configure call ("none" before the first)
    cfg_calls,    \* number of configure calls so far
    syn_pc,       \* position in synthesize
    region,       \* index of the region being laid out
    idx,          \* loop index i of the running loop
    regions,      \* SingleChipLayouter.regions: start row of each region
    columns,      \* SingleChipLayouter.columns: first free row of each column
    selectors_on, \* selector activations the backend holds: <<selector, row>>
    cells,        \* advice assignments the backend holds
    copies,       \* copy constraints to the instance column the backend holds
    output,       \* the array `output` of AssignedCell handles of region 3
    failed_at     \* the backend call that returned Err, "none" if none did

vars == <<provider, circuit, backend, cfg, cfg_calls, syn_pc,
          region, idx, regions, columns, selectors_on, cells, copies, output,
          failed_at>>

cfg_vars == <<cfg, cfg_calls>>
syn_vars == <<syn_pc, region, idx, regions, columns, selectors_on, cells, copies,
              output, failed_at>>

\* keys of the floor planner's column map: advice columns, then selectors
AdviceKey(c) == c
SelectorKey(s) == NumNodeColumns + s
ColumnKeys == 0..(NumNodeColumns + NumSelectors - 1)
\* config.output_column as a column of the permutation
InstanceKey == NumNodeColumns + NumSelectors

Init ==
    /\ provider \in Providers
    /\ \E kind \in WitnessKinds : circuit = WitnessFor(provider, kind)
    /\ backend \in Backends
    /\ cfg = [status |-> "none"]
    /\ cfg_calls = 0
    /\ syn_pc = "idle"
    /\ region = 0
    /\ idx = 0
    /\ regions = <<>>
    /\ columns = [k \in ColumnKeys |-> 0]
    /\ selectors_on = {}
    /\ cells = {}
    /\ copies = {}
    /\ output = <<>>
    /\ failed_at = "none"

\* ------------------------------------------------------------------------
\* The backend calls without_witnesses and configure
\* ------------------------------------------------------------------------
\* lines 33-40: the backend goes on with the instance returned
WithoutWitnesses ==
    /\ syn_pc = "idle"
    /\ circuit' = without_witnesses(circuit)
    /\ UNCHANGED <<provider, backend, cfg_vars, syn_vars>>

\* lines 42-92: configure is an associated function of the circuit type;
\* it is given the constraint system and reads the provider's weights
Configure ==
    /\ syn_pc = "idle"
    /\ cfg_calls < MaxConfigureCalls
    /\ cfg' = ConfigureOutcome(provider)
    /\ cfg_calls' = cfg_calls + 1
    /\ UNCHANGED <<provider, circuit, backend, syn_vars>>

\* ------------------------------------------------------------------------
\* synthesize, one action per call into the layouter
\* ------------------------------------------------------------------------
\* the columns region r touches, as the floor planner's shape pass of the
\* region's closure records them
RegionColumns(r) ==
    {SelectorKey(LayerSelector(r))}
        \cup {AdviceKey(NodeColumn(i)) : i \in 0..(LayerLen(circuit, r) - 1)}

\* the number of rows of every region: the offsets used, plus one
RegionRows == RowOffset + 1

\* SimpleFloorPlanner: a region starts at the first row that is free in
\* all of its columns
RegionStart(r) ==
    CHOOSE m \in {columns[k] : k \in RegionColumns(r)} :
        \A k \in RegionColumns(r) : columns[k] <= m

\* the absolute row of the region being laid out
CurRow == regions[region + 1] + RowOffset

\* the backend takes a row only if it is one of its usable rows
Usable(row) == row < backend.usable_rows

\* which calls the backend keeps
KeepsSelectors == backend.mode \in {"mock", "keygen"}
KeepsCells == backend.mode \in {"mock", "prove"}
KeepsCopies == backend.mode \in {"mock", "keygen"}

\* the columns of the permutation of the constraint system the config
\* belongs to: those configure gave to enable_equality, which are none
PermutationColumns == ConfigureOutcome(provider).cs.permutation

\* line 98: the backend calls synthesize with a config holding the 128 node
\* columns, the 3 selectors and the instance column
SynthesizeCall ==
    /\ syn_pc = "idle"
    /\ syn_pc' = "enter"
    /\ UNCHANGED <<provider, circuit, backend, cfg_vars, region, idx,
                   regions, columns, selectors_on, cells, copies, output, failed_at>>

\* lines 100, 120, 140: layouter.assign_region measures the region, places
\* it and marks its columns as taken up to its last row, all before the
\* closure's assignment pass
AssignRegionEnter ==
    /\ syn_pc = "enter"
    /\ LET start == RegionStart(region)
           taken == RegionColumns(region)
       IN /\ regions' = Append(regions, start)
          /\ columns' = [k \in ColumnKeys |->
                            IF k \in taken THEN start + RegionRows ELSE columns[k]]
    /\ syn_pc' = "enable"
    /\ UNCHANGED <<provider, circuit, backend, cfg_vars, region, idx,
                   selectors_on, cells, copies, output, failed_at>>

\* lines 104, 124, 144: config.layer_selectors[r].enable(&mut region, 0)?
EnableSelector ==
    /\ syn_pc = "enable"
    /\ LET ok == ~KeepsSelectors \/ Usable(CurRow)
       IN /\ selectors_on' = IF ok /\ KeepsSelectors
                             THEN selectors_on \cup {<<LayerSelector(region), CurRow>>}
                             ELSE selectors_on
          /\ syn_pc' = Propagate(ok, "assign")
          /\ failed_at' = IF ok THEN failed_at ELSE "enable"
    /\ idx' = 0
    /\ UNCHANGED <<provider, circuit, backend, cfg_vars, region,
                   regions, columns, cells, copies, output>>

\* lines 106-113, 126-133, 147-155: one iteration of the assignment loop.
\* A backend that keeps advice values rejects an unusable row and an
\* Unknown value; key generation takes the call as it is.
AssignAdvice ==
    /\ syn_pc = "assign"
    /\ idx < LayerLen(circuit, region)
    /\ LET val == LayerValues(circuit, region)[idx]
           ok == ~KeepsCells \/ (Usable(CurRow) /\ val.tag = "Known")
           cell == [column |-> NodeColumn(idx), row |-> CurRow, region |-> region,
                    index |-> idx, value |-> val.v]
           handle == [region_index |-> region, row_offset |-> RowOffset,
                      column |-> NodeColumn(idx)]
       IN /\ cells' = IF ok /\ KeepsCells THEN cells \cup {cell} ELSE cells
          /\ output' = IF ok /\ region = 2 THEN Append(output, handle) ELSE output
          /\ idx' = IF ok THEN idx + 1 ELSE idx
          /\ syn_pc' = Propagate(ok, "assign")
          /\ failed_at' = IF ok THEN failed_at ELSE "assign"
    /\ UNCHANGED <<provider, circuit, backend, cfg_vars, region,
                   regions, columns, selectors_on, copies>>

\* lines 115-117, 135-137, 157-159: the region's closure returns Ok and
\* synthesize goes on
AssignRegionExit ==
    /\ syn_pc = "assign"
    /\ idx = LayerLen(circuit, region)
    /\ IF region < 2
       THEN /\ region' = region + 1
            /\ syn_pc' = "enter"
       ELSE /\ region' = region
            /\ syn_pc' = "bind"
    /\ idx' = 0
    /\ UNCHANGED <<provider, circuit, backend, cfg_vars, regions,
                   columns, selectors_on, cells, copies, output, failed_at>>

\* lines 161-163: layouter.constrain_instance(output_layer3[i].cell(),
\* config.output_column, i)?  A backend that keeps copies rejects an
\* unusable row and a column that is not in the permutation.
ConstrainInstance ==
    /\ syn_pc = "bind"
    /\ idx < Len(output)
    /\ LET h == output[idx + 1]
           row == regions[h.region_index + 1] + h.row_offset
           ok == \/ ~KeepsCopies
                 \/ /\ Usable(row)
                    /\ Usable(InstanceRow(idx))
                    /\ {AdviceKey(h.column), InstanceKey} \subseteq PermutationColumns
           copy == [column |-> h.column, row |-> row, instance_row |-> InstanceRow(idx)]
       IN /\ copies' = IF ok /\ KeepsCopies THEN copies \cup {copy} ELSE copies
          /\ idx' = IF ok THEN idx + 1 ELSE idx
          /\ syn_pc' = Propagate(ok, "bind")
          /\ failed_at' = IF ok THEN failed_at ELSE "bind"
    /\ UNCHANGED <<provider, circuit, backend, cfg_vars, region,
                   regions, columns, selectors_on, cells, output>>

\* line 164: Ok(())
SynthesizeReturn ==
    /\ syn_pc = "bind"
    /\ idx = Len(output)
    /\ syn_pc' = "ok"
    /\ UNCHANGED <<provider, circuit, backend, cfg_vars, region, idx,
                   regions, columns, selectors_on, cells, copies, output, failed_at>>

Next ==
    \/ WithoutWitnesses
    \/ Configure
    \/ SynthesizeCall
    \/ AssignRegionEnter
    \/ EnableSelector
    \/ AssignAdvice
    \/ AssignRegionExit
    \/ ConstrainInstance
    \/ SynthesizeReturn

Spec == Init /\ [][Next]_vars


\* ------------------------------------------------------------------------
\* What the constraints say about the assignment
\* ------------------------------------------------------------------------
\* the value the backend holds in an advice cell; an unassigned cell is 0
CellVal(col, row) ==
    IF \E c \in cells : c.column = col /\ c.row = row
    THEN (CHOOSE c \in cells : c.column = col /\ c.row = row).value
    ELSE 0

\* the value of expression e on a row of the assignment
Evaluate(e, row) ==
    LET n == Len(e.terms)
        gate == IF \A s \in e.selectors : <<s, row>> \in selectors_on THEN 1 ELSE 0
        lin == SumRange([t \in 1..n |->
                            e.terms[t].coeff * CellVal(e.terms[t].column, row + e.terms[t].rotation)],
                        1, n + 1)
    IN (gate * (e.constant + lin)) % FieldP

\* the identities of the constraint system an outcome of configure
\* leaves: those of the gates create_gate registered
Identities(c) ==
    IF c.status = "none" THEN {}
    ELSE UNION {{[gate |-> c.cs.gates[g].name, j |-> j, poly |-> c.cs.gates[g].polys[j]] :
                    j \in DOMAIN c.cs.gates[g].polys} : g \in DOMAIN c.cs.gates}

\* the expressions the gate closures of a configure call built: those of
\* the registered gates and, after a panic, those in the local array of
\* the closure that aborted
ClosureBuilt(c) ==
    Identities(c)
        \cup (IF c.status = "panicked"
              THEN {[gate |-> c.in_gate, j |-> j, poly |-> c.next_values[j]] :
                       j \in DOMAIN c.next_values}
              ELSE {})

\* the rows on which the backend checks every gate
CheckedRows == 0..(backend.usable_rows - 1)

\* the values instance row i is forced to
InstanceBound(i) == {CellVal(c.column, c.row) : c \in {d \in copies : d.instance_row = i}}

\* the plain values of a layer of the instance
Plain(vals) == [i \in DOMAIN vals |-> vals[i].v]
AllKnown(self) == \A r \in 0..2 : \A i \in DOMAIN LayerValues(self, r) : LayerValues(self, r)[i].tag = "Known"
IsZero(self) == AllKnown(self) /\ \A r \in 0..2 : \A i \in DOMAIN LayerValues(self, r) : LayerValues(self, r)[i].v = 0
HiddenHonest(self) == Plain(self.layer2_values) = HiddenOf(provider, Plain(self.layer1_values))
OutputHonest(self) == Plain(self.layer3_values) = OutputOf(provider, Plain(self.layer2_values))

\* the registered gate of that name has n identities
GateHas(c, name, n) ==
    \E g \in DOMAIN c.cs.gates :
        c.cs.gates[g].name = name /\ Cardinality(DOMAIN c.cs.gates[g].polys) = n

\* the row of region r, once placed
RowOf(r) == regions[r + 1]

\* the closure of the output region has returned: all three regions are laid
\* out
RegionsDone == syn_pc \in {"bind", "ok"} \/ (syn_pc = "err" /\ failed_at = "bind")

\* the backend has a usable row for every region and every instance slot
HasRoom == backend.usable_rows >= NumOutputs

\* the selector that is to guard the gate of that name
GuardOf(gate) == IF gate = "layer_2" THEN 1 ELSE 2

\* the cell region r gets from the i-th value of its layer
CellOf(r, i) ==
    [column |-> i, row |-> RowOf(r), region |-> r, index |-> i,
     value |-> LayerValues(circuit, r)[i].v]

\* the cells of the whole of region r
CellsOf(r) == {CellOf(r, i) : i \in 0..(LayerLen(circuit, r) - 1)}

\* the ten bindings of output cell i to instance row i
TenBindings == {[column |-> i, row |-> RowOf(2), instance_row |-> i] : i \in 0..(NumOutputs - 1)}

\* ------------------------------------------------------------------------
\* C10
\* ------------------------------------------------------------------------
\* C10: configure never aborts: every call returns a config, with a
\* "layer_2" gate of 128 identities and an "out_layer" gate of 10.
C10_ConfigureNeverAborts ==
    cfg.status # "none" =>
        /\ cfg.status = "returned"
        /\ GateHas(cfg, "layer_2", NumHidden)
        /\ GateHas(cfg, "out_layer", NumOutputs)

\* ------------------------------------------------------------------------
\* C2
\* ------------------------------------------------------------------------
\* C2: configure builds the "layer_2" gate with one identity per hidden
\* neuron, and once the hidden region is assigned identity j vanishes on
\* the hidden row exactly if hidden[j] is the weighted sum of the input
\* values.
C2_HiddenGateBindsHidden ==
    (cfg.status # "none" /\ RegionsDone /\ KeepsCells) =>
        /\ GateHas(cfg, "layer_2", NumHidden)
        /\ \A id \in Identities(cfg) :
              id.gate = "layer_2" =>
                  (Evaluate(id.poly, RowOf(1)) = 0
                      <=> circuit.layer2_values[id.j].v
                            = HiddenOf(provider, Plain(circuit.layer1_values))[id.j])

\* ------------------------------------------------------------------------
\* C3
\* ------------------------------------------------------------------------
\* C3: an assignment whose output is not W2 * hidden is rejected: an
\* identity of the "out_layer" gate does not vanish on the output row.
C3_BadOutputRejected ==
    (cfg.status # "none" /\ RegionsDone /\ backend.mode = "mock" /\ ~OutputHonest(circuit)) =>
        \E id \in Identities(cfg) : id.gate = "out_layer" /\ Evaluate(id.poly, RowOf(2)) # 0

\* ------------------------------------------------------------------------
\* C4
\* ------------------------------------------------------------------------
\* C4: configure registers the two gates, and every identity of a gate,
\* as its closure builds it, is multiplied by the gate's selector, so that
\* it vanishes on every row where that selector is not enabled whatever
\* the node columns hold.
C4_GatesGuardedBySelector ==
    cfg.status # "none" =>
        /\ GateHas(cfg, "layer_2", NumHidden)
        /\ GateHas(cfg, "out_layer", NumOutputs)
        /\ \A id \in ClosureBuilt(cfg) :
              /\ GuardOf(id.gate) \in id.poly.selectors
              /\ \A row \in CheckedRows :
                    <<GuardOf(id.gate), row>> \notin selectors_on => Evaluate(id.poly, row) = 0

\* ------------------------------------------------------------------------
\* C1
\* ------------------------------------------------------------------------
\* C1: for a witness with hidden = W1 * input and output = W2 * hidden,
\* configure returns, synthesize on a backend with room for the circuit
\* succeeds, every identity vanishes on the rows its selector enables, and
\* instance slot i is bound to output[i].
C1_HonestWitnessAccepted ==
    (AllKnown(circuit) /\ HiddenHonest(circuit) /\ OutputHonest(circuit)) =>
        /\ cfg.status # "panicked"
        /\ HasRoom => syn_pc # "err"
        /\ (syn_pc = "ok" /\ backend.mode = "mock") =>
              /\ \A id \in Identities(cfg) : \A row \in CheckedRows :
                    <<GuardOf(id.gate), row>> \in selectors_on => Evaluate(id.poly, row) = 0
              /\ \A i \in 0..(NumOutputs - 1) : InstanceBound(i) = {circuit.layer3_values[i].v}

\* ------------------------------------------------------------------------
\* C5
\* ------------------------------------------------------------------------
\* C5: every binding to the instance column binds the cell assigned from
\* layer3_values[i] in the output region to instance row i, no binding is
\* made before all ten output cells exist, and after a successful
\* synthesize the bindings are exactly those ten.
C5_InstanceBindingExact ==
    /\ copies # {} => (Len(output) = NumOutputs /\ Len(regions) = 3)
    /\ \A c \in copies :
          /\ c.instance_row \in 0..(NumOutputs - 1)
          /\ c.column = c.instance_row
          /\ c.row = RowOf(2)
          /\ c.row \notin {RowOf(0), RowOf(1)}
    /\ syn_pc = "ok" => copies = TenBindings

\* ------------------------------------------------------------------------
\* C8
\* ------------------------------------------------------------------------
\* C8: at most three regions, on strictly increasing rows; region r
\* enables selector r on its own row and assigns the i-th value of layer r
\* to node column i of that row; no row has two selectors and no cell two
\* assignments; once the closure of the output region has returned the
\* layout is exactly the three regions.
C8_RegionLayout ==
    /\ Len(regions) <= 3
    /\ \A a, b \in DOMAIN regions : a < b => regions[a] + RegionRows <= regions[b]
    /\ \A s \in selectors_on :
          /\ s[1] \in 0..(Len(regions) - 1)
          /\ s[2] = RowOf(s[1])
    /\ \A s, t \in selectors_on : s[2] = t[2] => s = t
    /\ \A c \in cells :
          /\ c.region \in 0..(Len(regions) - 1)
          /\ c = CellOf(c.region, c.index)
          /\ KeepsSelectors => <<c.region, c.row>> \in selectors_on
    /\ Cardinality({<<c.column, c.row>> : c \in cells}) = Cardinality(cells)
    /\ RegionsDone =>
          /\ Len(regions) = 3
          /\ LayerLen(circuit, 0) = NumInputs
          /\ LayerLen(circuit, 1) = NumHidden
          /\ LayerLen(circuit, 2) = NumOutputs
          /\ KeepsSelectors => selectors_on = {<<r, RowOf(r)>> : r \in 0..2}
          /\ KeepsCells => cells = CellsOf(0) \cup CellsOf(1) \cup CellsOf(2)

\* the three regions laid out on a mock prover: 3 selectors, 148 cells
C8_Witness ==
    /\ RegionsDone /\ backend.mode = "mock"
    /\ Len(regions) = 3
    /\ Cardinality(selectors_on) = 3
    /\ Cardinality(cells) = NumInputs + NumHidden + NumOutputs

\* ------------------------------------------------------------------------
\* C9
\* ------------------------------------------------------------------------
\* C9: with the all-zero witness, whatever the weights, every identity of
\* the circuit vanishes on every row, synthesize on a backend with room
\* succeeds, and it binds every instance slot to zero.
C9_ZeroWitnessSatisfies ==
    IsZero(circuit) =>
        /\ \A id \in Identities(cfg) : \A row \in CheckedRows : Evaluate(id.poly, row) = 0
        /\ HasRoom => syn_pc # "err"
        /\ syn_pc = "ok" => \A i \in 0..(NumOutputs - 1) : InstanceBound(i) = {0}

\* ------------------------------------------------------------------------
\* C6
\* ------------------------------------------------------------------------
\* C6 as stated: a failed synthesize leaves no selector activation, no
\* cell assignment and no instance binding in the layout state.
C6_FailureLeavesNothing ==
    syn_pc = "err" => (selectors_on = {} /\ cells = {} /\ copies = {})

\* the regions whose selector is on when the call named failed
RegionsEnabled == IF failed_at = "enable" THEN 0..(region - 1) ELSE 0..region

\* C6 as amended: synthesize returns Err at the first failing call and
\* makes no later call, and undoes nothing: the layout state holds exactly
\* what the calls before the failing one put there.
C6_FailureKeepsEarlierSteps ==
    /\ failed_at # "none" <=> syn_pc = "err"
    /\ syn_pc = "err" =>
          /\ KeepsSelectors => selectors_on = {<<r, RowOf(r)>> : r \in RegionsEnabled}
          /\ KeepsCells =>
                cells = UNION {CellsOf(r) : r \in 0..(region - 1)}
                          \cup (IF failed_at = "assign"
                                THEN {CellOf(region, i) : i \in 0..(idx - 1)}
                                ELSE IF failed_at = "bind" THEN CellsOf(region) ELSE {})
          /\ KeepsCopies =>
                copies = IF failed_at = "bind"
                         THEN {[column |-> i, row |-> RowOf(2), instance_row |-> i] : i \in 0..(idx - 1)}
                         ELSE {}

\* a synthesize that failed in the output region or later, with the two
\* earlier regions still in the layout state
C6_Witness ==
    /\ syn_pc = "err" /\ backend.mode = "mock" /\ region = 2
    /\ CellsOf(0) \cup CellsOf(1) \subseteq cells
    /\ {<<0, RowOf(0)>>, <<1, RowOf(1)>>} \subseteq selectors_on

====
